---- MODULE Spec2Model ----
(***************************************************************************)
(* PasswordChecker: the command-line password strength checker in its two  *)
(* versions, password-checker_v2.0.py (functions + main loop) and           *)
(* password-checker_v1.0.py (one monolithic loop).                          *)
(*                                                                         *)
(* A string is a sequence of one-character strings.  A running program is  *)
(* a record (its position pc, its local variables, the last message it     *)
(* printed, the lines it appended to the log file, its exit status); every *)
(* handler of the source is an operator from such a record (and the input  *)
(* it consumes) to the next record.  A log line is the record of the three *)
(* fields the f-string formats after the timestamp; the timestamp itself   *)
(* (datetime.now()) and failures of the file system are not modelled.      *)
(***************************************************************************)
EXTENDS Integers, Sequences, FiniteSets, TLC

VARIABLES v2, v1, twin, ev, submitted, scored, checks, arg, result

vars == <<v2, v1, twin, ev, submitted, scored, checks, arg, result>>

(***************************************************************************)
(* Bounds of the model.                                                    *)
(***************************************************************************)
\* longest core of a string handed to score_password on its own
MaxCore == 3
\* most non-blank passwords submitted in one password check
MaxAttempts == 2
\* most times one program run starts another password check
MaxRepeats == 1

(***************************************************************************)
(* Characters and the classes the regular expressions name.                *)
(***************************************************************************)
UC == <<"A","B","C","D","E","F","G","H","I","J","K","L","M",
        "N","O","P","Q","R","S","T","U","V","W","X","Y","Z">>

LC == <<"a","b","c","d","e","f","g","h","i","j","k","l","m",
        "n","o","p","q","r","s","t","u","v","w","x","y","z">>

DG == <<"0","1","2","3","4","5","6","7","8","9">>

Range(f) == {f[i] : i \in DOMAIN f}

\* r"[A-Z]"
PatUpper == Range(UC)

\* r"[a-z]"
PatLower == Range(LC)

\* r"[0-9]"
PatDigit == Range(DG)

\* symbols_pat = r"[@$!%*?&]"
PatSymbols == {"@", "$", "!", "%", "*", "?", "&"}

\* the characters str.strip() removes, among those of the model
Whitespace == {" ", "\t"}

\* min_len = 8, and the literal 8 of the validation chain
MinLen == 8

(***************************************************************************)
(* Library functions, by what they do.                                     *)
(***************************************************************************)
\* re.search(r"[...]", s): scan s from the left for a character of the class
RECURSIVE re_search(_, _)
re_search(class, s) ==
    IF s = <<>> THEN FALSE
    ELSE IF Head(s) \in class THEN TRUE
    ELSE re_search(class, Tail(s))

RECURSIVE lstrip(_)
lstrip(s) ==
    IF s # <<>> /\ Head(s) \in Whitespace THEN lstrip(Tail(s)) ELSE s

RECURSIVE rstrip(_)
rstrip(s) ==
    IF s # <<>> /\ s[Len(s)] \in Whitespace
    THEN rstrip(SubSeq(s, 1, Len(s) - 1)) ELSE s

\* str.strip()
strip(s) == rstrip(lstrip(s))

lower_char(c) ==
    IF \E i \in DOMAIN UC : UC[i] = c
    THEN LC[CHOOSE i \in DOMAIN UC : UC[i] = c]
    ELSE c

\* str.lower()
lower(s) == [i \in DOMAIN s |-> lower_char(s[i])]

(***************************************************************************)
(* v2.0: the password logic.                                               *)
(***************************************************************************)
\* score_password asking for more than min_len characters
score_passwordStrictLen(password) ==
    LET s1 == IF Len(password) > MinLen THEN 1 ELSE 0
        s2 == IF re_search(PatUpper, password) THEN s1 + 1 ELSE s1
        s3 == IF re_search(PatLower, password) THEN s2 + 1 ELSE s2
        s4 == IF re_search(PatDigit, password) THEN s3 + 1 ELSE s3
        s5 == IF re_search(PatSymbols, password) THEN s4 + 1 ELSE s4
    IN  s5

\* score_password(password) with min_len and symbols_pat at their defaults
score_password(password) ==
    LET s1 == IF Len(password) >= MinLen THEN 1 ELSE 0
        s2 == IF re_search(PatUpper, password) THEN s1 + 1 ELSE s1
        s3 == IF re_search(PatLower, password) THEN s2 + 1 ELSE s2
        s4 == IF re_search(PatDigit, password) THEN s3 + 1 ELSE s3
        s5 == IF re_search(PatSymbols, password) THEN s4 + 1 ELSE s4
    IN  s5

\* rating_from_score calling a score of 4 Strong
rating_from_scoreLoose(score) ==
    IF score >= 4 THEN "Strong"
    ELSE IF score >= 3 THEN "Medium"
    ELSE "Weak"

\* rating_from_score(score)
rating_from_score(score) ==
    IF score = 5 THEN "Strong"
    ELSE IF score >= 3 THEN "Medium"
    ELSE "Weak"

\* the line log_attempt appends, without its timestamp
log_attempt(attempts, score, rating) ==
    [attempts |-> attempts, score |-> score, rating |-> rating]

(***************************************************************************)
(* v2.0: the input handlers and the main checker.                          *)
(* pc: "getpass" (safe_getpass waits in getpass.getpass), "input"          *)
(* (safe_getpass waits in the visible input()), "spinner" (the animation   *)
(* runs, validation follows), "ask_retry" and "ask_another" (ask_yes_no    *)
(* waits in input()), "exit" (main returned), "traceback" (an exception    *)
(* left main).  password is kept from the read to the validation, its last *)
(* use: nothing reads it again before the next read overwrites it.         *)
(***************************************************************************)
valid_yes == {<<"y">>, <<"y", "e", "s">>}

valid_no == {<<"n">>, <<"n", "o">>}

\* ask_yes_no without strip()
ask_yes_noNoStrip(ans) ==
    LET ans_norm == lower(ans)
    IN  IF ans_norm \in valid_yes THEN "True"
        ELSE IF ans_norm \in valid_no THEN "False"
        ELSE "again"

\* ask_yes_no on one line read: "True", "False", or "again" (the loop goes on)
ask_yes_no(ans) ==
    LET ans_norm == lower(strip(ans))
    IN  IF ans_norm \in valid_yes THEN "True"
        ELSE IF ans_norm \in valid_no THEN "False"
        ELSE "again"

\* main's first call of run_password_check
main_start ==
    [pc |-> "getpass", attempts |-> 0, password |-> <<>>, score |-> 0,
     rating |-> "None", out |-> "welcome", log |-> <<>>,
     status |-> "running"]

\* run_password_check is entered: attempts = 0, the other locals unbound
run_password_check_enter(s) ==
    [s EXCEPT !.pc = "getpass", !.attempts = 0, !.password = <<>>,
              !.score = 0, !.rating = "None"]

\* run_password_check returns to main: its locals are gone
run_password_check_return(s) ==
    [s EXCEPT !.pc = "ask_another", !.attempts = 0, !.password = <<>>,
              !.score = 0, !.rating = "None"]

\* run_password_check_read without the blank test
run_password_check_readCountsBlank(s, line) ==
    [s EXCEPT !.password = line, !.attempts = @ + 1,
              !.out = "checking", !.pc = "spinner"]

\* safe_getpass returns a line; the blank test; attempts += 1
run_password_check_read(s, line) ==
    IF strip(line) = <<>>
    THEN [s EXCEPT !.password = line, !.out = "empty", !.pc = "getpass"]
    ELSE [s EXCEPT !.password = line, !.attempts = @ + 1,
                   !.out = "checking", !.pc = "spinner"]

\* feedback with the digit test moved before the uppercase test
feedbackDigitFirst(password) ==
    IF Len(password) < MinLen THEN "too_short"
    ELSE IF ~re_search(PatDigit, password) THEN "digit"
    ELSE IF ~re_search(PatUpper, password) THEN "uppercase"
    ELSE IF ~re_search(PatLower, password) THEN "lowercase"
    ELSE IF ~re_search(PatSymbols, password) THEN "symbol"
    ELSE "hurray"

\* the if/elif chain of the step-by-step feedback: the message it prints
feedback(password) ==
    IF Len(password) < MinLen THEN "too_short"
    ELSE IF ~re_search(PatUpper, password) THEN "uppercase"
    ELSE IF ~re_search(PatLower, password) THEN "lowercase"
    ELSE IF ~re_search(PatDigit, password) THEN "digit"
    ELSE IF ~re_search(PatSymbols, password) THEN "symbol"
    ELSE "hurray"

\* run_password_check_validate writing the password where the attempt count goes
run_password_check_validateLeak(s) ==
    LET fb == feedback(s.password)
        score == score_password(s.password)
        rating == rating_from_score(score)
    IN  IF fb = "hurray"
        THEN [run_password_check_return(s) EXCEPT
                       !.out = fb,
                       !.log = Append(@, log_attempt(s.password, score, rating))]
        ELSE [s EXCEPT !.password = <<>>,
                       !.score = score, !.rating = rating, !.out = fb,
                       !.pc = "ask_retry"]

\* the spinner has ended: feedback, score and rating, the log line of a success
run_password_check_validate(s) ==
    LET fb == feedback(s.password)
        score == score_password(s.password)
        rating == rating_from_score(score)
    IN  IF fb = "hurray"
        THEN [run_password_check_return(s) EXCEPT
                       !.out = fb,
                       !.log = Append(@, log_attempt(s.attempts, score, rating))]
        ELSE [s EXCEPT !.password = <<>>,
                       !.score = score, !.rating = rating, !.out = fb,
                       !.pc = "ask_retry"]

\* run_password_check_retry without the log line of a declined retry
run_password_check_retryNoLog(s, line) ==
    LET retry_yes == ask_yes_no(line)
    IN  IF retry_yes = "again"
        THEN [s EXCEPT !.out = "not_yes_no"]
        ELSE IF retry_yes = "False"
        THEN [run_password_check_return(s) EXCEPT !.out = "thank_you"]
        ELSE [s EXCEPT !.out = "next_round", !.pc = "getpass"]

\* run_password_check_retry starting the count again on every retry
run_password_check_retryRecount(s, line) ==
    LET retry_yes == ask_yes_no(line)
    IN  IF retry_yes = "again"
        THEN [s EXCEPT !.out = "not_yes_no"]
        ELSE IF retry_yes = "False"
        THEN [run_password_check_return(s) EXCEPT
                       !.out = "thank_you",
                       !.log = Append(@, log_attempt(s.attempts, s.score, s.rating))]
        ELSE [s EXCEPT !.out = "next_round", !.pc = "getpass", !.attempts = 0]

\* the answer to "Would you like to try again?"
run_password_check_retry(s, line) ==
    LET retry_yes == ask_yes_no(line)
    IN  IF retry_yes = "again"
        THEN [s EXCEPT !.out = "not_yes_no"]
        ELSE IF retry_yes = "False"
        THEN [run_password_check_return(s) EXCEPT
                       !.out = "thank_you",
                       !.log = Append(@, log_attempt(s.attempts, s.score, s.rating))]
        ELSE [s EXCEPT !.out = "next_round", !.pc = "getpass"]

\* the answer to "Would you like to check another password?"
main_another(s, line) ==
    LET another == ask_yes_no(line)
    IN  IF another = "again"
        THEN [s EXCEPT !.out = "not_yes_no"]
        ELSE IF another = "False"
        THEN [s EXCEPT !.out = "bye", !.pc = "exit",
                       !.status = "exit_0"]
        ELSE [run_password_check_enter(s) EXCEPT !.out = "next_run"]

\* safe_getpass: EOFError or KeyboardInterrupt in getpass.getpass or in input
safe_getpass_interrupt(s) ==
    [s EXCEPT !.out = "interrupted", !.pc = "getpass"]

\* safe_getpass: getpass.getpass raises another exception
safe_getpass_fallback(s) ==
    [s EXCEPT !.out = "visible_input", !.pc = "input"]

\* ask_yes_no: EOFError or KeyboardInterrupt in input
ask_yes_no_interrupt(s) ==
    [s EXCEPT !.out = "interrupted_yes_no"]

\* KeyboardInterrupt while spinner sleeps: no handler encloses the call
spinner_interrupt(s) ==
    [s EXCEPT !.pc = "traceback", !.status = "killed"]

\* one line typed, and the program run on to its next prompt or its end
v2_feed(s, line) ==
    IF s.pc \in {"getpass", "input"}
    THEN LET r == run_password_check_read(s, line)
         IN  IF r.pc = "spinner" THEN run_password_check_validate(r) ELSE r
    ELSE IF s.pc = "ask_retry" THEN run_password_check_retry(s, line)
    ELSE IF s.pc = "ask_another" THEN main_another(s, line)
    ELSE s

(***************************************************************************)
(* v1.0: the monolithic script.  pc: "getpass", "input", "spinner",        *)
(* "ask_retry" (the bare input() of the retry loop), "exit" (the script    *)
(* ended or raised SystemExit(0)).                                         *)
(***************************************************************************)
\* attempts = 0, then the first prompt
v1_start ==
    [pc |-> "getpass", attempts |-> 0, password |-> <<>>, score |-> 0,
     out |-> "welcome", log |-> <<>>, status |-> "running"]

\* the score computed in line, on the success path and on the failure path
v1_score(password) ==
    LET s1 == IF Len(password) >= MinLen THEN 1 ELSE 0
        s2 == IF re_search(PatUpper, password) THEN s1 + 1 ELSE s1
        s3 == IF re_search(PatLower, password) THEN s2 + 1 ELSE s2
        s4 == IF re_search(PatDigit, password) THEN s3 + 1 ELSE s3
        s5 == IF re_search(PatSymbols, password) THEN s4 + 1 ELSE s4
    IN  s5

\* the line the f-string writes, without its timestamp
v1_log_line(attempts, score) ==
    [attempts |-> attempts, score |-> score,
     rating |-> IF score = 5 THEN "Strong"
                ELSE IF score >= 3 THEN "Medium" ELSE "Weak"]

\* the password is read; the blank test; attempts += 1
v1_read(s, line) ==
    IF strip(line) = <<>>
    THEN [s EXCEPT !.password = line, !.out = "empty", !.pc = "getpass"]
    ELSE [s EXCEPT !.password = line, !.attempts = @ + 1,
                   !.out = "checking", !.pc = "spinner"]

\* the if/elif chain
v1_feedback(password) ==
    IF Len(password) < MinLen THEN "too_short"
    ELSE IF ~re_search(PatUpper, password) THEN "uppercase"
    ELSE IF ~re_search(PatLower, password) THEN "lowercase"
    ELSE IF ~re_search(PatDigit, password) THEN "digit"
    ELSE IF ~re_search(PatSymbols, password) THEN "symbol"
    ELSE "hurray"

\* the spinner has ended: on success log and break, and the script ends
v1_validate(s) ==
    LET fb == v1_feedback(s.password)
        score == v1_score(s.password)
    IN  IF fb = "hurray"
        THEN [s EXCEPT !.password = <<>>, !.score = score, !.out = fb,
                       !.log = Append(@, v1_log_line(s.attempts, score)),
                       !.pc = "exit", !.status = "exit_0"]
        ELSE [s EXCEPT !.password = <<>>, !.score = score, !.out = fb,
                       !.pc = "ask_retry"]

\* v1_retry without the log line of a declined retry
v1_retryNoLog(s, line) ==
    LET retry == lower(strip(line))
    IN  IF retry \in {<<"y">>, <<"y", "e", "s">>}
        THEN [s EXCEPT !.out = "next_round", !.pc = "getpass"]
        ELSE IF retry \in {<<"n">>, <<"n", "o">>}
        THEN [s EXCEPT !.out = "thank_you",
                       !.pc = "exit", !.status = "exit_0"]
        ELSE [s EXCEPT !.out = "not_yes_no"]

\* the retry loop on one line read
v1_retry(s, line) ==
    LET retry == lower(strip(line))
    IN  IF retry \in {<<"y">>, <<"y", "e", "s">>}
        THEN [s EXCEPT !.out = "next_round", !.pc = "getpass"]
        ELSE IF retry \in {<<"n">>, <<"n", "o">>}
        THEN [s EXCEPT !.out = "thank_you",
                       !.log = Append(@, v1_log_line(s.attempts, s.score)),
                       !.pc = "exit", !.status = "exit_0"]
        ELSE [s EXCEPT !.out = "not_yes_no"]

\* one line typed, and the script run on to its next prompt or its end
v1_feed(s, line) ==
    IF s.pc \in {"getpass", "input"}
    THEN LET r == v1_read(s, line)
         IN  IF r.pc = "spinner" THEN v1_validate(r) ELSE r
    ELSE IF s.pc = "ask_retry" THEN v1_retry(s, line)
    ELSE s

(***************************************************************************)
(* The lines a user types.                                                 *)
(***************************************************************************)
\* one character of each class the scorer looks for
Reps == <<"A", "a", "1", "!">>

\* the characters of Reps whose index is in S, in order
Pick(S) ==
    LET f[i \in 0..Len(Reps)] ==
            IF i = 0 THEN <<>>
            ELSE IF i \in S THEN Append(f[i - 1], Reps[i])
            ELSE f[i - 1]
    IN  f[Len(Reps)]

\* s followed by "#" up to length n (s itself when it is that long)
PadTo(s, n) ==
    IF Len(s) >= n THEN s ELSE s \o [i \in 1..(n - Len(s)) |-> "#"]

\* every combination of the four classes, unpadded, one short of MinLen, MinLen
Passwords ==
    {PadTo(Pick(S), n) : S \in SUBSET (1..Len(Reps)), n \in {0, MinLen - 1, MinLen}}

Blanks == {<<>>, <<" ">>, <<"\t", " ">>}

Answers ==
    {<<"y">>, <<" ", "Y", "e", "S", "\t">>,
     <<"n">>, <<"\t", "N", "O", " ">>,
     <<"y", "e">>, <<"n", " ", "o">>}

\* what is typed at the password prompt, and at a yes/no question
PasswordLines == Passwords \cup Blanks \cup {<<"y", "e", "s">>}

AnswerLines == Answers \cup {<<>>, <<"A", "a", "1", "!">>}

\* a line of whitespace only
IsBlank(line) == \A i \in DOMAIN line : line[i] \in {" ", "\t"}

(***************************************************************************)
(* One run of v2.0.  ev is the last event and the line it carried (for the *)
(* end of the spinner, the password validated); submitted counts the       *)
(* non-blank passwords read since the current check began, scored the      *)
(* validations of the whole run, checks the password checks that ended.    *)
(***************************************************************************)
Idle == [pc |-> "none"]

Init ==
    /\ v2 = main_start
    /\ v1 = Idle
    /\ twin = Idle
    /\ ev = [kind |-> "start", line |-> <<>>]
    /\ submitted = 0
    /\ scored = 0
    /\ checks = 0
    /\ arg = <<>>
    /\ result = -1

Others == <<v1, twin, arg, result>>

\* a line arrives at the password prompt
GetPass ==
    \E line \in PasswordLines :
        /\ v2.pc \in {"getpass", "input"}
        /\ IsBlank(line) \/ v2.attempts < MaxAttempts
        /\ v2' = run_password_check_read(v2, line)
        /\ ev' = [kind |-> "line", line |-> line]
        /\ submitted' = IF IsBlank(line) THEN submitted ELSE submitted + 1
        /\ UNCHANGED <<scored, checks, Others>>

\* Ctrl-C or end of input at the password prompt
GetPassInterrupt ==
    /\ v2.pc \in {"getpass", "input"}
    /\ v2' = safe_getpass_interrupt(v2)
    /\ ev' = [kind |-> "interrupt", line |-> <<>>]
    /\ UNCHANGED <<submitted, scored, checks, Others>>

\* the terminal cannot hide the input
GetPassUnsupported ==
    /\ v2.pc = "getpass"
    /\ v2' = safe_getpass_fallback(v2)
    /\ ev' = [kind |-> "unsupported", line |-> <<>>]
    /\ UNCHANGED <<submitted, scored, checks, Others>>

\* the spinner runs to its end and the password is validated
Spinner ==
    /\ v2.pc = "spinner"
    /\ v2' = run_password_check_validate(v2)
    /\ ev' = [kind |-> "tick", line |-> v2.password]
    /\ scored' = scored + 1
    /\ checks' = IF v2'.pc = "ask_another" THEN checks + 1 ELSE checks
    /\ UNCHANGED <<submitted, Others>>

\* Ctrl-C while the spinner runs
SpinnerInterrupt ==
    /\ v2.pc = "spinner"
    /\ v2' = spinner_interrupt(v2)
    /\ ev' = [kind |-> "interrupt", line |-> <<>>]
    /\ UNCHANGED <<submitted, scored, checks, Others>>

\* a line arrives at "Would you like to try again?"
AskRetry ==
    \E line \in AnswerLines :
        /\ v2.pc = "ask_retry"
        /\ v2' = run_password_check_retry(v2, line)
        /\ ev' = [kind |-> "line", line |-> line]
        /\ checks' = IF v2'.pc = "ask_another" THEN checks + 1 ELSE checks
        /\ UNCHANGED <<submitted, scored, Others>>

\* a line arrives at "Would you like to check another password?"
AskAnother ==
    \E line \in AnswerLines :
        /\ v2.pc = "ask_another"
        /\ ask_yes_no(line) = "True" => Len(v2.log) <= MaxRepeats
        /\ v2' = main_another(v2, line)
        /\ ev' = [kind |-> "line", line |-> line]
        /\ submitted' = IF v2'.pc = "getpass" THEN 0 ELSE submitted
        /\ UNCHANGED <<scored, checks, Others>>

\* Ctrl-C or end of input at a yes/no question
AskInterrupt ==
    /\ v2.pc \in {"ask_retry", "ask_another"}
    /\ v2' = ask_yes_no_interrupt(v2)
    /\ ev' = [kind |-> "interrupt", line |-> <<>>]
    /\ UNCHANGED <<submitted, scored, checks, Others>>

Next ==
    \/ GetPass
    \/ GetPassInterrupt
    \/ GetPassUnsupported
    \/ Spinner
    \/ SpinnerInterrupt
    \/ AskRetry
    \/ AskAnother
    \/ AskInterrupt

Spec == Init /\ [][Next]_vars

(***************************************************************************)
(* score_password on its own: a string is drawn, then scored.              *)
(***************************************************************************)
CoreChars == {"A", "a", "0", "@", "#"}

Cores == UNION {[1..n -> CoreChars] : n \in 0..MaxCore}

\* at most one more character: the ends of the ranges, every symbol, others
Extras ==
    {<<>>} \cup
    {<<c>> : c \in {"Z", "z", "9", "$", "!", "%", "*", "?", "&",
                    " ", "\t", "^", "-", "_", "[", "]"}}

Strings ==
    {c \o e \o [i \in 1..n |-> "#"] : c \in Cores, e \in Extras, n \in 0..MinLen}

InitScore ==
    /\ arg \in Strings
    /\ result = -1
    /\ v2 = Idle
    /\ v1 = Idle
    /\ twin = Idle
    /\ ev = [kind |-> "start", line |-> <<>>]
    /\ submitted = 0
    /\ scored = 0
    /\ checks = 0

Call ==
    /\ result = -1
    /\ result' = score_password(arg)
    /\ UNCHANGED <<v2, v1, twin, ev, submitted, scored, checks, arg>>

SpecScore == InitScore /\ [][Call]_vars

(***************************************************************************)
(* Two runs of v2.0 side by side: the same answers, and passwords that     *)
(* agree in being blank or not and in their score.                         *)
(***************************************************************************)
Reverse(s) == [i \in DOMAIN s |-> s[Len(s) + 1 - i]]

\* every combination of the classes at length MinLen; all four classes in
\* another order and without padding; two blank lines
TwinLines ==
    {PadTo(Pick(S), MinLen) : S \in SUBSET (1..Len(Reps))}
    \cup {Reverse(PadTo(Pick(1..Len(Reps)), MinLen)), Pick(1..Len(Reps)),
          <<>>, <<" ">>}

Unused == <<submitted, scored, checks, arg, result>>

InitTwin ==
    /\ v2 = main_start
    /\ twin = main_start
    /\ v1 = Idle
    /\ ev = [kind |-> "start", line |-> <<>>, line2 |-> <<>>]
    /\ submitted = 0
    /\ scored = 0
    /\ checks = 0
    /\ arg = <<>>
    /\ result = -1

\* the pairs of lines the two runs may be given at the password prompt
TwinPairs ==
    {pq \in TwinLines \X TwinLines :
        /\ IsBlank(pq[1]) = IsBlank(pq[2])
        /\ score_password(pq[1]) = score_password(pq[2])}

TwinPassword ==
    \E pq \in TwinPairs :
        /\ v2.pc = "getpass"
        /\ IsBlank(pq[1]) \/ v2.attempts < MaxAttempts
        /\ v2' = v2_feed(v2, pq[1])
        /\ twin' = v2_feed(twin, pq[2])
        /\ ev' = [kind |-> "line", line |-> pq[1], line2 |-> pq[2]]
        /\ UNCHANGED <<v1, Unused>>

TwinAnswer ==
    \E line \in AnswerLines :
        /\ v2.pc \in {"ask_retry", "ask_another"}
        /\ (v2.pc = "ask_another" /\ ask_yes_no(line) = "True")
               => Len(v2.log) <= MaxRepeats
        /\ v2' = v2_feed(v2, line)
        /\ twin' = v2_feed(twin, line)
        /\ ev' = [kind |-> "line", line |-> line, line2 |-> line]
        /\ UNCHANGED <<v1, Unused>>

NextTwin == TwinPassword \/ TwinAnswer

SpecTwin == InitTwin /\ [][NextTwin]_vars

(***************************************************************************)
(* v1.0 and v2.0 side by side on the same lines.                           *)
(***************************************************************************)
InitVersions ==
    /\ v2 = main_start
    /\ v1 = v1_start
    /\ twin = Idle
    /\ ev = [kind |-> "start", line |-> <<>>]
    /\ submitted = 0
    /\ scored = 0
    /\ checks = 0
    /\ arg = <<>>
    /\ result = -1

VersionsPassword ==
    \E line \in PasswordLines :
        /\ v2.pc = "getpass"
        /\ IsBlank(line) \/ v2.attempts < MaxAttempts
        /\ v2' = v2_feed(v2, line)
        /\ v1' = v1_feed(v1, line)
        /\ ev' = [kind |-> "line", line |-> line]
        /\ UNCHANGED <<twin, Unused>>

VersionsAnswer ==
    \E line \in AnswerLines :
        /\ v2.pc \in {"ask_retry", "ask_another"}
        /\ (v2.pc = "ask_another" /\ ask_yes_no(line) = "True")
               => Len(v2.log) <= MaxRepeats
        /\ v2' = v2_feed(v2, line)
        /\ v1' = v1_feed(v1, line)
        /\ ev' = [kind |-> "line", line |-> line]
        /\ UNCHANGED <<twin, Unused>>

NextVersions == VersionsPassword \/ VersionsAnswer

SpecVersions == InitVersions /\ [][NextVersions]_vars

(***************************************************************************)
(* The properties.  What a claim says of a password, a score or an answer  *)
(* is written out here on its own, apart from the operators above.         *)
(***************************************************************************)
\* rule r of the five, in the fixed order, holds of the string pw
Rule(r, pw) ==
    CASE r = 1 -> Len(pw) >= 8
      [] r = 2 -> \E i \in DOMAIN pw : \E k \in DOMAIN UC : pw[i] = UC[k]
      [] r = 3 -> \E i \in DOMAIN pw : \E k \in DOMAIN LC : pw[i] = LC[k]
      [] r = 4 -> \E i \in DOMAIN pw : \E k \in DOMAIN DG : pw[i] = DG[k]
      [] r = 5 -> \E i \in DOMAIN pw : pw[i] \in {"@", "$", "!", "%", "*", "?", "&"}

Unmet(pw) == {r \in 1..5 : ~Rule(r, pw)}

Count(pw) == Cardinality({r \in 1..5 : Rule(r, pw)})

RuleNames == <<"too_short", "uppercase", "lowercase", "digit", "symbol">>

FirstUnmet(pw) == CHOOSE r \in Unmet(pw) : \A q \in Unmet(pw) : r <= q

RatingTable(score) ==
    CASE score = 5 -> "Strong"
      [] score \in {3, 4} -> "Medium"
      [] score \in {0, 1, 2} -> "Weak"

\* the answers of AnswerLines that say yes, and those that say no
YesLines == {<<"y">>, <<" ", "Y", "e", "S", "\t">>}

NoLines == {<<"n">>, <<"\t", "N", "O", " ">>}

Last(q) == q[Len(q)]

\* q is p with one more line at its end
Appended(p, q) == Len(q) = Len(p) + 1 /\ SubSeq(q, 1, Len(p)) = p

\* C1: score_password returns, for every string, an integer in 0..5 equal to
\* the number of the five rules that hold of it; the empty string scores 0
\* and a string shorter than 8 characters scores at most 4.
C1_ScoreCountsRules ==
    result # -1 =>
        /\ result \in 0..5
        /\ result = Count(arg)
        /\ arg = <<>> => result = 0
        /\ Len(arg) < 8 => result <= 4

\* a string of exactly 8 characters with all four classes has been scored 5
C1_Witness == result = 5 /\ Len(arg) = 8

\* C2: rating_from_score is Strong exactly for 5, Medium exactly for 3 and 4,
\* Weak exactly for 0, 1 and 2, and the rating of every log line is the
\* rating of the score of the same line.
C2_RatingOfScore ==
    /\ \A score \in 0..5 : rating_from_score(score) = RatingTable(score)
    /\ \A i \in DOMAIN v2.log :
           /\ v2.log[i].score \in 0..5
           /\ v2.log[i].rating = RatingTable(v2.log[i].score)

\* the log holds a line rated Medium with score 4 and a line rated Strong
C2_Witness ==
    /\ \E i \in DOMAIN v2.log : v2.log[i].score = 4 /\ v2.log[i].rating = "Medium"
    /\ \E i \in DOMAIN v2.log : v2.log[i].rating = "Strong"

\* C3: the validation of a non-blank password reports the first unmet rule in
\* the order length, uppercase, lowercase, digit, symbol, and only that one;
\* the success branch is taken exactly when no rule is unmet, exactly when
\* score_password returns 5; a success log line carries score 5 and rating
\* Strong, a failure log line a score of at most 4.
C3_FirstUnmetRule ==
    [][/\ (v2.pc = "spinner" /\ ev'.kind = "tick") =>
            LET pw == v2.password
            IN  /\ Unmet(pw) # {} =>
                       /\ v2'.out = RuleNames[FirstUnmet(pw)]
                       /\ v2'.pc = "ask_retry"
                       /\ v2'.log = v2.log
                       /\ v2'.score <= 4
                /\ Unmet(pw) = {} <=> v2'.out = "hurray"
                /\ Unmet(pw) = {} <=> score_password(pw) = 5
                /\ Unmet(pw) = {} =>
                       /\ Appended(v2.log, v2'.log)
                       /\ Last(v2'.log).score = 5
                       /\ Last(v2'.log).rating = "Strong"
       /\ (v2.pc = "ask_retry" /\ v2'.log # v2.log) =>
            /\ Appended(v2.log, v2'.log)
            /\ Last(v2'.log).score <= 4
      ]_vars

\* a password of 8 characters without uppercase letter and without digit has
\* been reported as missing an uppercase letter
C3_Witness ==
    /\ ev.kind = "tick"
    /\ Unmet(ev.line) = {2, 4}
    /\ v2.pc = "ask_retry"
    /\ v2.out = "uppercase"

\* C4: a blank line at the password prompt leads back to the password prompt
\* and leaves the attempt counter, the score, the rating and the log as they
\* were: nothing is scored, no retry question is asked.
C4_BlankLeavesAll ==
    [][(v2.pc \in {"getpass", "input"} /\ ev'.kind = "line" /\ IsBlank(ev'.line)) =>
            /\ v2'.pc = "getpass"
            /\ v2'.out = "empty"
            /\ v2'.attempts = v2.attempts
            /\ v2'.log = v2.log
            /\ v2'.score = v2.score
            /\ v2'.rating = v2.rating
            /\ scored' = scored
      ]_vars

\* a whitespace-only line has been read after a failed attempt of the second
\* password check
C4_Witness ==
    /\ ev.kind = "line"
    /\ ev.line = <<"\t", " ">>
    /\ v2.pc = "getpass"
    /\ v2.out = "empty"
    /\ v2.attempts = 1
    /\ Len(v2.log) = 1

\* C5, as stated: once every submitted password has been dealt with (the
\* program asks for another check or has ended), the log has as many lines
\* as passwords were scored.
C5_LinePerScoredAttempt ==
    v2.pc \in {"ask_another", "exit"} => Len(v2.log) = scored

\* C5, amended: the log has one line per password check that ended; each line
\* is appended at the end, earlier lines stay, and it carries the attempt
\* count, the score and the rating of the last attempt of its check.
C5_LinePerCheck ==
    /\ [](Len(v2.log) = checks)
    /\ [][\/ v2'.log = v2.log
          \/ /\ Appended(v2.log, v2'.log)
             /\ checks' = checks + 1
             /\ Last(v2'.log).attempts = submitted
             /\ v2.pc = "spinner" => Last(v2'.log).score = Count(v2.password)
             /\ v2.pc = "ask_retry" => Last(v2'.log).score = v2.score
             /\ Last(v2'.log).rating = RatingTable(Last(v2'.log).score)
         ]_vars

\* two checks have ended, with two log lines, after three scored attempts
C5_Witness == checks = 2 /\ Len(v2.log) = 2 /\ scored = 3

\* C6: an interrupt, wherever it arrives, does not end the process, does not
\* change the attempt counter, writes no log line and leads to a prompt.
C6_InterruptNeverEnds ==
    [][ev'.kind = "interrupt" =>
            /\ v2'.pc \in {"getpass", "ask_retry", "ask_another"}
            /\ v2'.status = "running"
            /\ v2'.attempts = v2.attempts
            /\ v2'.log = v2.log
      ]_vars

\* C7: two runs given the same answers and passwords that agree in being
\* blank or not and in their score have appended the same log lines.
C7_LogIndependentOfPassword == twin.log = v2.log /\ twin.pc = v2.pc

\* the two runs were given different passwords and both have logged the check
C7_Witness ==
    /\ ev.kind = "line"
    /\ ev.line # ev.line2
    /\ ~IsBlank(ev.line)
    /\ Len(v2.log) = 1
    /\ Len(twin.log) = 1
    /\ v2.pc = "ask_another"

\* C8: at the retry question an answer that is neither yes nor no is asked
\* for again; yes leads to the password prompt with no log line; no appends
\* one log line for the failing attempt and leads to the outer question; a
\* success appends one log line and leads to the outer question; there yes
\* starts a new check and no ends the program with exit status 0.
C8_SessionLoop ==
    [][/\ (v2.pc = "ask_retry" /\ ev'.kind = "line") =>
            /\ ev'.line \in YesLines =>
                   v2'.pc = "getpass" /\ v2'.log = v2.log
            /\ ev'.line \in NoLines =>
                   /\ v2'.pc = "ask_another"
                   /\ v2'.log = Append(v2.log,
                          [attempts |-> v2.attempts, score |-> v2.score,
                           rating |-> v2.rating])
            /\ ev'.line \notin YesLines \cup NoLines =>
                   v2'.pc = "ask_retry" /\ v2'.log = v2.log
       /\ (v2.pc = "spinner" /\ ev'.kind = "tick" /\ Unmet(v2.password) = {}) =>
            v2'.pc = "ask_another" /\ Appended(v2.log, v2'.log)
       /\ (v2.pc = "ask_another" /\ ev'.kind = "line") =>
            /\ v2'.log = v2.log
            /\ ev'.line \in YesLines =>
                   v2'.pc = "getpass" /\ v2'.attempts = 0 /\ v2'.status = "running"
            /\ ev'.line \in NoLines =>
                   v2'.pc = "exit" /\ v2'.status = "exit_0"
            /\ ev'.line \notin YesLines \cup NoLines =>
                   v2'.pc = "ask_another" /\ v2'.status = "running"
      ]_vars

\* the program has ended normally after two password checks, the last answer
\* a no in capitals between whitespace
C8_Witness ==
    /\ v2.pc = "exit"
    /\ v2.status = "exit_0"
    /\ Len(v2.log) = 2
    /\ ev.line = <<"\t", "N", "O", " ">>

\* C9: inside a password check the attempt counter equals the number of
\* non-blank passwords read since the check began; a new check starts it at
\* 0; every log line carries that number, which is at least 1.
C9_AttemptsCountNonBlank ==
    /\ [](/\ v2.pc \in {"getpass", "input", "spinner", "ask_retry"} =>
                v2.attempts = submitted
          /\ \A i \in DOMAIN v2.log : v2.log[i].attempts >= 1)
    /\ [][/\ v2'.log # v2.log =>
                Last(v2'.log).attempts = submitted /\ submitted >= 1
          /\ (v2.pc = "ask_another" /\ v2'.pc = "getpass") => v2'.attempts = 0
         ]_vars

\* the first check took two attempts and the second check one
C9_Witness ==
    /\ Len(v2.log) = 2
    /\ v2.log[1].attempts = 2
    /\ v2.log[2].attempts = 1

\* the question a program is asking
Prompt(s) ==
    CASE s.pc \in {"getpass", "input"} -> "password"
      [] s.pc = "ask_retry" -> "retry"
      [] s.pc = "ask_another" -> "another"
      [] OTHER -> "none"

\* C10, as stated: on the same lines both versions have appended the same log
\* lines, ask the same question and have ended or not alike.
C10_SameBehaviour ==
    /\ v1.log = v2.log
    /\ Prompt(v1) = Prompt(v2)
    /\ v1.pc = "exit" <=> v2.pc = "exit"

\* C10, amended: up to the end of the first password check both versions ask
\* the same questions, count the same attempts and append the same log line;
\* there v1.0 ends with exit status 0 and v2.0 asks for another check.
C10_SameFirstCheck ==
    /\ v1.pc # "exit" =>
           /\ Prompt(v1) = Prompt(v2)
           /\ v1.attempts = v2.attempts
           /\ v1.score = v2.score
           /\ v1.log = <<>>
           /\ v2.log = <<>>
    /\ v1.pc = "exit" =>
           /\ v1.status = "exit_0"
           /\ Len(v1.log) = 1
           /\ Len(v2.log) >= 1
           /\ v2.log[1] = v1.log[1]

\* v1.0 has ended after a declined retry while v2.0 runs a second check
C10_Witness ==
    /\ v1.pc = "exit"
    /\ v1.log[1].score < 5
    /\ v2.pc = "ask_retry"
    /\ Len(v2.log) = 1

====
